---- MODULE Spec2Model ----
(***************************************************************************)
(* A model of crossfiledialog: the backend selector file_dialog            *)
(* (crossfiledialog/__init__.py) and the kdialog subprocess backend        *)
(* (whines_crossfiledialog/file_pickers/kdialog.py).                       *)
(*                                                                         *)
(* Python values are tagged records: None is [none |-> TRUE], a str is     *)
(* [str |-> s] with s a sequence of one-character strings, a list of str   *)
(* is [list |-> l] with l a sequence of such sequences.                    *)
(***************************************************************************)
EXTENDS Integers, Sequences, FiniteSets

VARIABLES
    last_cwd,   \* kdialog.py module global last_cwd
    environ,    \* os.environ's FILEDIALOG_CWD entry (None when unset)
    call,       \* the most recent kdialog call: its inputs and what it did
    hist_path,  \* history: the path of the latest call whose output was non-empty
    sel         \* the most recent file_dialog call: its inputs and outcome

vars == <<last_cwd, environ, call, hist_path, sel>>

----------------------------------------------------------------------------
\* Bounds of the model.

\* longest subprocess output explored in SpecParse
MaxLen == 3
\* longest subprocess output explored in Spec
MaxArgOut == 2
\* longest subprocess output explored in SpecExit
MaxExitOut == 2
\* longest caller-supplied preference list explored in SpecSelect
MaxPrefs == 2

----------------------------------------------------------------------------
\* Python values.

None == [none |-> TRUE]
Str(s) == [str |-> s]
List(l) == [list |-> l]

IsNone(x) == "none" \in DOMAIN x
IsStr(x) == "str" \in DOMAIN x
IsList(x) == "list" \in DOMAIN x

\* Python truthiness of None, a str or a list
Truthy(x) ==
    IF IsNone(x) THEN FALSE
    ELSE IF IsStr(x) THEN x.str # <<>>
    ELSE x.list # <<>>

\* the characters of the explored texts
Chars == {"a", "/", "\n"}
PathChars == {"a", "/"}

\* all texts over the alphabet C of length at most n
Strs(C, n) == UNION {[1..k -> C] : k \in 0..n}

----------------------------------------------------------------------------
\* str.strip(), str.split("\n") and os.path.dirname, as Python computes them.

IsSpace(c) == c \in {" ", "\n"}

RECURSIVE LStrip(_)
LStrip(s) ==
    IF s = <<>> THEN s
    ELSE IF IsSpace(Head(s)) THEN LStrip(Tail(s))
    ELSE s

RECURSIVE RStrip(_)
RStrip(s) ==
    IF s = <<>> THEN s
    ELSE IF IsSpace(s[Len(s)]) THEN RStrip(SubSeq(s, 1, Len(s) - 1))
    ELSE s

\* s.strip()
Strip(s) == RStrip(LStrip(s))

\* s.split("\n"): always at least one entry, "" gives [""]
RECURSIVE Split(_)
Split(s) ==
    IF \A i \in 1..Len(s) : s[i] # "\n" THEN <<s>>
    ELSE LET i == CHOOSE j \in 1..Len(s) :
                      /\ s[j] = "\n"
                      /\ \A k \in 1..(j - 1) : s[k] # "\n"
         IN <<SubSeq(s, 1, i - 1)>> \o Split(SubSeq(s, i + 1, Len(s)))

\* list(map(str.strip, l))
RECURSIVE MapStrip(_)
MapStrip(l) ==
    IF l = <<>> THEN <<>>
    ELSE <<Strip(Head(l))>> \o MapStrip(Tail(l))

\* head.rstrip("/")
RECURSIVE RStripSlash(_)
RStripSlash(s) ==
    IF s = <<>> THEN s
    ELSE IF s[Len(s)] = "/" THEN RStripSlash(SubSeq(s, 1, Len(s) - 1))
    ELSE s

\* posixpath.dirname(p)
dirname(p) ==
    LET slashes == {j \in 1..Len(p) : p[j] = "/"}
        i == IF slashes = {} THEN 0
             ELSE CHOOSE j \in slashes : \A k \in slashes : k <= j
        head == SubSeq(p, 1, i)
    IN IF head # <<>> /\ \E k \in 1..Len(head) : head[k] # "/"
       THEN RStripSlash(head)
       ELSE head

----------------------------------------------------------------------------
\* kdialog.py

\* get_preferred_cwd with the two sources swapped: last_cwd wins over the
\* environment
get_preferred_cwd_last_first ==
    IF Truthy(last_cwd) THEN last_cwd
    ELSE IF ~IsNone(environ) /\ Truthy(environ) THEN environ
    ELSE None

\* get_preferred_cwd(): the override from the environment, else last_cwd,
\* else None (the function falls off its end)
get_preferred_cwd ==
    LET possible_cwd == IF IsNone(environ) THEN Str(<<>>) ELSE environ
    IN IF Truthy(possible_cwd) THEN possible_cwd
       ELSE IF Truthy(last_cwd) THEN last_cwd
       ELSE None

\* set_last_cwd(cwd): the new value of last_cwd
set_last_cwd(cwd) == Str(dirname(cwd))

\* kwargs is an insertion-ordered dict: a sequence of [k, v] entries
Has(kwargs, key) == \E i \in 1..Len(kwargs) : kwargs[i].k = key
Get(kwargs, key) == kwargs[CHOOSE i \in 1..Len(kwargs) : kwargs[i].k = key].v
Put(kwargs, key, val) == Append(kwargs, [k |-> key, v |-> val])
Pop(kwargs, key) == SelectSeq(kwargs, LAMBDA e : e.k # key)

\* the entries of a command line: a literal word, "--name", or a text value
Lit(w) == [lit |-> w]
Opt(name) == [opt |-> name]
Val(s) == [val |-> s]

RECURSIVE Opts(_)
Opts(args) ==
    IF args = <<>> THEN <<>>
    ELSE <<Opt(Head(args))>> \o Opts(Tail(args))

RECURSIVE Items(_)
Items(kwargs) ==
    IF kwargs = <<>> THEN <<>>
    ELSE <<Opt(Head(kwargs).k), Val(Head(kwargs).v)>> \o Items(Tail(kwargs))

\* the command line with last_cwd standing in for a missing start_dir
cmdlist_last_cwd(args, kwargs) ==
    LET c1 == <<Lit("kdialog")>> \o Opts(args)
        c2 == IF Has(kwargs, "start_dir")
              THEN Append(c1, Val(Get(kwargs, "start_dir")))
              ELSE IF Truthy(last_cwd) THEN Append(c1, Val(last_cwd.str))
              ELSE c1
        k2 == Pop(kwargs, "start_dir")
        c3 == IF Has(k2, "filter")
              THEN Append(c2, Val(Get(k2, "filter"))) ELSE c2
        k3 == Pop(k2, "filter")
    IN c3 \o Items(k3)

\* run_kdialog, lines 34-45: the command line built from args and kwargs
cmdlist(args, kwargs) ==
    LET c1 == <<Lit("kdialog")>> \o Opts(args)
        c2 == IF Has(kwargs, "start_dir")
              THEN Append(c1, Val(Get(kwargs, "start_dir"))) ELSE c1
        k2 == Pop(kwargs, "start_dir")
        c3 == IF Has(k2, "filter")
              THEN Append(c2, Val(Get(k2, "filter"))) ELSE c2
        k3 == Pop(k2, "filter")
    IN c3 \o Items(k3)

\* a behaviour of the kdialog process
Proc(started, returncode, stdout, stderr) ==
    [started |-> started, returncode |-> returncode,
     stdout |-> stdout, stderr |-> stderr]

\* Popen could not start the executable
NotStarted == Proc(FALSE, 0, <<>>, <<>>)

\* whether run_kdialog raises KDialogException for this return code
unexpected_error(returncode) == returncode = -1

\* run_kdialog(*args, **kwargs) against the process behaviour proc: the
\* command line, the cwd given to Popen (None: no cwd keyword), what is
\* written to sys.stderr, and the outcome (a returned str or a raised error)
run_kdialog(args, kwargs, proc) ==
    LET preferred_cwd == get_preferred_cwd
        ran == [cmdlist |-> cmdlist(args, kwargs),
                cwd |-> IF Truthy(preferred_cwd) THEN preferred_cwd ELSE None,
                written |-> <<>>,
                outcome |-> [raise |-> "OSError"]]
    IN IF ~proc.started
       THEN ran
       ELSE IF unexpected_error(proc.returncode)
       THEN [ran EXCEPT !.outcome = [raise |-> "KDialogException"]]
       ELSE [ran EXCEPT
                !.written = IF Strip(proc.stderr) # <<>> THEN proc.stderr ELSE <<>>,
                !.outcome = [ret |-> Str(Strip(proc.stdout))]]

Raised(outcome) == "raise" \in DOMAIN outcome

\* filter_processor(filter, (" ", "{} ({})"), " | ") on a raw pattern string
filter_processor(filter) == filter

\* the kwargs the four operations build before calling run_kdialog
kdialog_kwargs(title, start_dir, filter) ==
    LET k1 == <<[k |-> "title", v |-> title]>>
        k2 == IF Truthy(start_dir) THEN Put(k1, "start_dir", start_dir.str) ELSE k1
    IN IF Truthy(filter) THEN Put(k2, "filter", filter_processor(filter.str)) ELSE k2

\* what a call leaves in the model's record of it
Record(op, title, start_dir, filter, proc, ran, outcome) ==
    [op |-> op, title |-> title, start_dir |-> start_dir, filter |-> filter,
     proc |-> proc, env |-> environ, prev_cwd |-> last_cwd,
     cmdlist |-> ran.cmdlist, cwd |-> ran.cwd, written |-> ran.written,
     run |-> ran.outcome, outcome |-> outcome]

\* the history variable: the path of a call whose process started, was not
\* treated as an error and printed something other than whitespace
History(proc, outcome) ==
    IF ~Raised(outcome) /\ Strip(proc.stdout) # <<>>
    THEN IF IsList(outcome.ret) THEN Str(outcome.ret.list[1]) ELSE outcome.ret
    ELSE hist_path

\* lines 102-104, 181-183, 211-213: if result: set_last_cwd(result)
after_single(outcome) ==
    IF Raised(outcome) THEN last_cwd
    ELSE IF Truthy(outcome.ret) THEN set_last_cwd(outcome.ret.str)
    ELSE last_cwd

\* FileDialog.open_file(title, start_dir, filter)
open_file(title, start_dir, filter, proc) ==
    LET ran == run_kdialog(<<"getopenfilename">>,
                           kdialog_kwargs(title, start_dir, filter), proc)
    IN /\ last_cwd' = after_single(ran.outcome)
       /\ call' = Record("open_file", title, start_dir, filter, proc, ran, ran.outcome)
       /\ hist_path' = History(proc, ran.outcome)
       /\ UNCHANGED <<environ, sel>>

\* lines 148-152: the list open_multiple returns for the text run_kdialog gave
result_list(result) == MapStrip(Split(result))

\* FileDialog.open_multiple(title, start_dir, filter)
open_multiple(title, start_dir, filter, proc) ==
    LET ran == run_kdialog(<<"getopenfilename", "multiple", "separate-output">>,
                           kdialog_kwargs(title, start_dir, filter), proc)
        lst == result_list(ran.outcome.ret.str)
        outcome == IF Raised(ran.outcome) THEN ran.outcome
                   ELSE IF Truthy(List(lst)) THEN [ret |-> List(lst)]
                   ELSE [ret |-> List(<<>>)]
    IN /\ last_cwd' = IF Raised(ran.outcome) THEN last_cwd
                      ELSE IF Truthy(List(lst)) THEN set_last_cwd(lst[1])
                      ELSE last_cwd
       /\ call' = Record("open_multiple", title, start_dir, filter, proc, ran, outcome)
       /\ hist_path' = History(proc, outcome)
       /\ UNCHANGED <<environ, sel>>

\* FileDialog.save_file(title, start_dir)
save_file(title, start_dir, proc) ==
    LET ran == run_kdialog(<<"getsavefilename">>,
                           kdialog_kwargs(title, start_dir, None), proc)
    IN /\ last_cwd' = after_single(ran.outcome)
       /\ call' = Record("save_file", title, start_dir, None, proc, ran, ran.outcome)
       /\ hist_path' = History(proc, ran.outcome)
       /\ UNCHANGED <<environ, sel>>

\* FileDialog.choose_folder(title, start_dir)
choose_folder(title, start_dir, proc) ==
    LET ran == run_kdialog(<<"getexistingdirectory">>,
                           kdialog_kwargs(title, start_dir, None), proc)
    IN /\ last_cwd' = after_single(ran.outcome)
       /\ call' = Record("choose_folder", title, start_dir, None, proc, ran, ran.outcome)
       /\ hist_path' = History(proc, ran.outcome)
       /\ UNCHANGED <<environ, sel>>

\* the caller's process changes FILEDIALOG_CWD between calls
SetEnv(v) ==
    /\ environ' = v
    /\ UNCHANGED <<last_cwd, call, hist_path, sel>>

----------------------------------------------------------------------------
\* crossfiledialog/__init__.py

default_picker_preferences == <<"kdialog", "pygobject", "qt", "zenity">>

\* shutil.which(name): the path of the binary (here its name) or None
which(name, avail) == IF name \in avail THEN Str(<<name>>) ELSE None

\* "from crossfiledialog.file_pickers.<picker> import FileDialog; return
\* FileDialog": the backend's class, or the ImportError of a picker module
\* that cannot be imported on this host
import_FileDialog(picker, importable) ==
    IF picker \in importable THEN [ret |-> picker]
    ELSE [raise |-> "ImportError"]

\* lines 22-51: the scan of the preference list
RECURSIVE scan(_, _, _)
scan(preferred_picklers, avail, importable) ==
    IF preferred_picklers = <<>>
    THEN [raise |-> "NoImplementationFoundException"]
    ELSE LET picker == Head(preferred_picklers)
             kdialog_binary == which("kdialog", avail)
             zenity_binary == which("zenity", avail)
         IN IF picker = "kdialog" /\ Truthy(kdialog_binary)
            THEN import_FileDialog("kdialog", importable)
            ELSE IF picker = "pygobject"
            THEN import_FileDialog("pygobject", importable)
            ELSE IF picker = "qt"
            THEN import_FileDialog("qt", importable)
            ELSE IF picker = "zenity" /\ Truthy(zenity_binary)
            THEN import_FileDialog("zenity", importable)
            ELSE scan(Tail(preferred_picklers), avail, importable)

\* the preference list file_dialog scans
preferred(picker_preference) ==
    IF Truthy(picker_preference) THEN picker_preference.list
    ELSE default_picker_preferences

\* file_dialog(picker_preference) on a host of the given sys.platform where
\* the backends in avail are usable and the picker modules in importable
\* can be imported
file_dialog(platform, picker_preference, avail, importable) ==
    /\ sel' = [called |-> TRUE, platform |-> platform,
               picker_preference |-> picker_preference, avail |-> avail,
               importable |-> importable,
               outcome |->
                   IF platform = "linux"
                   THEN scan(preferred(picker_preference), avail, importable)
                   ELSE IF platform = "win32"
                   THEN import_FileDialog("win32", importable)
                   ELSE [raise |-> "NoImplementationFoundException"]]
    /\ UNCHANGED <<last_cwd, environ, call, hist_path>>

----------------------------------------------------------------------------
\* Inputs.

Titles == {<<"t">>}
StartDirs == {None, Str(<<>>), Str(<<"/", "s">>)}
Filters == {None, Str(<<"*">>)}
EnvValues == {None, Str(<<>>), Str(<<"/", "e">>)}
ReturnCodes == {0, 1, -1, -9}
Stderrs == {<<>>, <<"w">>}

ProcsArgs ==
    {NotStarted, Proc(TRUE, -1, <<>>, <<>>)}
        \cup {Proc(TRUE, 0, s, <<>>) : s \in Strs(PathChars, MaxArgOut)}
ProcsParse == {Proc(TRUE, 0, s, <<>>) : s \in Strs(Chars, MaxLen)}
ProcsExit ==
    {NotStarted}
        \cup {Proc(TRUE, rc, s, e) : rc \in ReturnCodes,
                                      s \in Strs(PathChars, MaxExitOut),
                                      e \in Stderrs}

Backends == {"kdialog", "pygobject", "qt", "zenity"}
Platforms == {"linux", "win32", "darwin"}
\* the picker modules that import: those of the usable backends, of any
\* other backend whose module loads without its toolkit, and win32's on
\* Windows
Importables(platform, avail) ==
    {avail \cup x \cup w : x \in SUBSET {"pygobject", "qt"},
                           w \in IF platform = "win32" THEN {{"win32"}, {}} ELSE {{}}}
Preferences ==
    {None} \cup {List(l) : l \in UNION {[1..k -> Backends] : k \in 0..MaxPrefs}}

----------------------------------------------------------------------------
\* Specifications.

NoCall ==
    [op |-> "none", title |-> <<>>, start_dir |-> None, filter |-> None,
     proc |-> NotStarted, env |-> None, prev_cwd |-> None,
     cmdlist |-> <<>>, cwd |-> None, written |-> <<>>,
     run |-> [ret |-> None], outcome |-> [ret |-> None]]

NoSel ==
    [called |-> FALSE, platform |-> "linux", picker_preference |-> None,
     avail |-> {}, importable |-> {}, outcome |-> [ret |-> "none"]]

Init ==
    /\ last_cwd = None
    /\ environ = None
    /\ call = NoCall
    /\ hist_path = None
    /\ sel = NoSel

\* calls with every shape of argument
Next ==
    \/ \E t \in Titles, d \in StartDirs, f \in Filters, p \in ProcsArgs :
           open_file(t, d, f, p)
    \/ \E t \in Titles, d \in StartDirs, f \in Filters, p \in ProcsArgs :
           open_multiple(t, d, f, p)
    \/ \E t \in Titles, d \in StartDirs, p \in ProcsArgs : save_file(t, d, p)
    \/ \E t \in Titles, d \in StartDirs, p \in ProcsArgs : choose_folder(t, d, p)

Spec == Init /\ [][Next]_vars

\* calls with default arguments, under a changing environment
NextEnv ==
    \/ \E v \in EnvValues : SetEnv(v)
    \/ \E t \in Titles, p \in ProcsArgs : open_file(t, None, None, p)
    \/ \E t \in Titles, p \in ProcsArgs : open_multiple(t, None, None, p)
    \/ \E t \in Titles, p \in ProcsArgs : save_file(t, None, p)
    \/ \E t \in Titles, p \in ProcsArgs : choose_folder(t, None, p)

SpecEnv == Init /\ [][NextEnv]_vars

\* calls with default arguments, over every output text
NextParse ==
    \/ \E t \in Titles, p \in ProcsParse : open_file(t, None, None, p)
    \/ \E t \in Titles, p \in ProcsParse : open_multiple(t, None, None, p)
    \/ \E t \in Titles, p \in ProcsParse : save_file(t, None, p)
    \/ \E t \in Titles, p \in ProcsParse : choose_folder(t, None, p)

SpecParse == Init /\ [][NextParse]_vars

\* calls with default arguments, over every way the process can end
NextExit ==
    \/ \E t \in Titles, p \in ProcsExit : open_file(t, None, None, p)
    \/ \E t \in Titles, p \in ProcsExit : open_multiple(t, None, None, p)
    \/ \E t \in Titles, p \in ProcsExit : save_file(t, None, p)
    \/ \E t \in Titles, p \in ProcsExit : choose_folder(t, None, p)

SpecExit == Init /\ [][NextExit]_vars

\* backend selection
NextSelect ==
    \E pf \in Platforms, pp \in Preferences, a \in SUBSET Backends :
        \E m \in Importables(pf, a) : file_dialog(pf, pp, a, m)

SpecSelect == Init /\ [][NextSelect]_vars

----------------------------------------------------------------------------
\* Properties.

Called == call.op # "none"
SingleOps == {"open_file", "save_file", "choose_folder"}

\* None and "" both stand for an empty working-directory memory
Memory(x) == IF Truthy(x) THEN x ELSE None

\* the number of entries the program name and the subcommand flags take
FlagCount(op) == IF op = "open_multiple" THEN 4 ELSE 2

\* the positional arguments of a command line: the text values between the
\* subcommand flags and the first named option
RECURSIVE LeadingVals(_)
LeadingVals(c) ==
    IF c = <<>> \/ "val" \notin DOMAIN Head(c) THEN <<>>
    ELSE <<Head(c)>> \o LeadingVals(Tail(c))

Positionals == LeadingVals(SubSeq(call.cmdlist, FlagCount(call.op) + 1, Len(call.cmdlist)))

\* the first element of P that is in A, or NoImplementationFoundException
RECURSIVE FirstAvailable(_, _)
FirstAvailable(P, A) ==
    IF P = <<>> THEN [raise |-> "NoImplementationFoundException"]
    ELSE IF Head(P) \in A THEN [ret |-> Head(P)]
    ELSE FirstAvailable(Tail(P), A)

\* C1: on a Linux host file_dialog returns the backend of the first element
\* of the preference list (the default list when the caller gives none or an
\* empty one) that is available, and raises NoImplementationFoundException
\* when none is.
C1_FirstAvailableSelected ==
    (sel.called /\ sel.platform = "linux") =>
        sel.outcome =
            FirstAvailable(IF IsNone(sel.picker_preference)
                              \/ sel.picker_preference.list = <<>>
                           THEN <<"kdialog", "pygobject", "qt", "zenity">>
                           ELSE sel.picker_preference.list,
                           sel.avail)

\* C2: a call whose subprocess output is empty leaves the working-directory
\* memory as it was before the call.
C2_CancelKeepsLastCwd ==
    (Called /\ call.proc.started /\ call.proc.stdout = <<>>) =>
        Memory(last_cwd) = Memory(call.prev_cwd)

\* the lines of s, each stripped, without the empty ones
NonEmptyLines(s) == SelectSeq(MapStrip(Split(s)), LAMBDA l : l # <<>>)

\* C3: open_multiple returns the output's lines, stripped, in order and with
\* no empty entries; empty output gives the empty list.
C3_OpenMultipleLines ==
    (call.op = "open_multiple" /\ ~Raised(call.outcome)) =>
        call.outcome.ret = List(NonEmptyLines(call.proc.stdout))

\* C4: when the kdialog process cannot be started the call raises
\* KDialogException and last_cwd is as before the call.
C4_LaunchFailureRaisesKDialogException ==
    (Called /\ ~call.proc.started) =>
        /\ call.outcome = [raise |-> "KDialogException"]
        /\ last_cwd = call.prev_cwd

\* C5: open_file, save_file and choose_folder return the stripped output
\* when it is non-empty and None when it is empty.
C5_SingleResultOrNone ==
    (call.op \in SingleOps /\ ~Raised(call.outcome)) =>
        call.outcome.ret =
            IF Strip(call.proc.stdout) # <<>> THEN Str(Strip(call.proc.stdout))
            ELSE None

\* C6: the cwd given to the subprocess is FILEDIALOG_CWD as read at the call
\* when that is non-empty, otherwise the remembered last_cwd when that is
\* non-empty, otherwise no cwd is given.
C6_PopenCwd ==
    Called =>
        call.cwd =
            IF ~IsNone(call.env) /\ call.env.str # <<>> THEN call.env
            ELSE IF ~IsNone(call.prev_cwd) /\ call.prev_cwd.str # <<>>
            THEN call.prev_cwd
            ELSE None

\* a call made with FILEDIALOG_CWD set while a different directory was
\* remembered; the environment's value was used
C6_Witness ==
    /\ Called
    /\ Truthy(call.env)
    /\ Truthy(call.prev_cwd)
    /\ call.env # call.prev_cwd
    /\ call.cwd = call.env

\* C7: last_cwd is empty while no call has returned a non-empty result, and
\* afterwards is the parent directory of the path the most recent such call
\* returned (the first path for open_multiple).
C7_LastCwdTracksLatestPath ==
    IF IsNone(hist_path) THEN Memory(last_cwd) = None
    ELSE last_cwd = Str(dirname(hist_path.str))

\* C8 as stated: the start-directory argument is the explicit start_dir,
\* otherwise the remembered last_cwd, and is left out only when neither is
\* known.
C8_StartDirFallsBackToLastCwd ==
    (Called /\ ~Truthy(call.filter)) =>
        Positionals =
            IF Truthy(call.start_dir) THEN <<Val(call.start_dir.str)>>
            ELSE IF Truthy(call.prev_cwd) THEN <<Val(call.prev_cwd.str)>>
            ELSE <<>>

\* C8 as amended: the command carries the explicit start_dir as its first
\* positional argument when the caller gives a non-empty one; otherwise no
\* start directory is put on the command line, whatever last_cwd holds (the
\* only positional argument is then the filter, when one is given).
C8_StartDirOnlyWhenExplicit ==
    Called =>
        IF Truthy(call.start_dir)
        THEN /\ Positionals # <<>>
             /\ Positionals[1] = Val(call.start_dir.str)
             /\ Len(Positionals) = IF Truthy(call.filter) THEN 2 ELSE 1
        ELSE Len(Positionals) = IF Truthy(call.filter) THEN 1 ELSE 0

\* a call without start_dir made while a directory was remembered: the
\* command has no positional argument
C8_Witness ==
    /\ Called
    /\ ~Truthy(call.start_dir)
    /\ ~Truthy(call.filter)
    /\ Truthy(call.prev_cwd)
    /\ Positionals = <<>>

\* C9: in open_file and open_multiple the subcommand flags come first, a
\* supplied filter is the second positional argument, after the start
\* directory and never in its place, and the title follows as --title value.
C9_FilterAfterStartDir ==
    (call.op \in {"open_file", "open_multiple"}) =>
        LET n == FlagCount(call.op)
            c == call.cmdlist
        IN /\ \A i \in 2..n : "opt" \in DOMAIN c[i]
           /\ Truthy(call.filter) =>
                 /\ Len(c) >= n + 2
                 /\ c[n + 1] # Val(call.filter.str)
                 /\ c[n + 2] = Val(call.filter.str)
           /\ SubSeq(c, Len(c) - 1, Len(c)) = <<Opt("title"), Val(call.title)>>

\* C10: run_kdialog raises KDialogException for every exit status of a
\* process killed by a signal (a negative return code) and returns the
\* stripped standard output for every other status, whatever is on the
\* error stream.
C10_AbnormalExitRaises ==
    (Called /\ call.proc.started) =>
        call.run =
            IF call.proc.returncode < 0 THEN [raise |-> "KDialogException"]
            ELSE [ret |-> Str(Strip(call.proc.stdout))]

====
